---- MODULE Spec2Model ----
(***************************************************************************)
(* The DHCP Server collector of windows_exporter                           *)
(* (src/internal/collector/dhcp/dhcp.go): Build, Collect (with its two     *)
(* acquisition paths collect and collectPDH) and Close, as a state         *)
(* machine.  Spec runs whole handlers one after the other; SpecConc runs   *)
(* several scrapes against one collector, one channel send at a time.      *)
(***************************************************************************)
EXTENDS Integers, Sequences, FiniteSets, TLC

\* ------------------------------------------------------------------ bounds
\* Raw value sets are k * (position of the counter), k in 0..MaxScale.
MaxScale == 2
\* Longest decoded sequence of dhcpPerf records.
MaxRecords == 2
\* Handles perfdata.NewCollector hands out before it starts failing.
MaxHandles == 1
\* Scrapes in flight at once in SpecConc.
NScrapes == 2

\* --------------------------------------------------------------- constants
Nil == "nil"

\* const Name (line 20)
Name == "dhcp"

\* types.Namespace, the first argument of every BuildFQName call
Namespace == "windows"

\* prometheus.CounterValue / prometheus.GaugeValue
CounterValue == "Counter"

GaugeValue == "Gauge"

\* perftypes.EmptyInstance, the key of the singleton instance (line 459)
EmptyInstance == "EmptyInstance"

\* any other instance key a perfdata result may carry
OtherInstance == "OtherInstance"

\* The messages of the errors the collector returns.
ErrCreate == "failed to create DHCP Server collector"

ErrCollect == "failed to collect DHCP Server metrics"

ErrEmptyResultSet == "perflib query for DHCP Server returned empty result set"

\* The error v1.UnmarshalObject returns for a blob it cannot decode.
ErrDecode == "unmarshal error"

\* The two run-time panics of the Go code.
PanicIndex == "index out of range [0] with length 0"

PanicNilDeref == "nil pointer dereference"

Range(s) == {s[i] : i \in DOMAIN s}

Min(S) == CHOOSE x \in S : \A y \in S : x <= y

\* ------------------------------------------------------------------ tables
\* The descriptor fields of type Collector (lines 32-56).
DescFields ==
    << "acksTotal",
       "activeQueueLength",
       "conflictCheckQueueLength",
       "declinesTotal",
       "deniedDueToMatch",
       "deniedDueToNonMatch",
       "discoversTotal",
       "duplicatesDroppedTotal",
       "failoverBndAckReceivedTotal",
       "failoverBndAckSentTotal",
       "failoverBndUpdDropped",
       "failoverBndUpdPendingOutboundQueue",
       "failoverBndUpdReceivedTotal",
       "failoverBndUpdSentTotal",
       "failoverTransitionsCommunicationInterruptedState",
       "failoverTransitionsPartnerDownState",
       "failoverTransitionsRecoverState",
       "informsTotal",
       "nACKsTotal",
       "offerQueueLength",
       "offersTotal",
       "packetsExpiredTotal",
       "packetsReceivedTotal",
       "releasesTotal",
       "requestsTotal" >>

\* The counter identifiers Build hands to perfdata.NewCollector (lines 93-119).
counters ==
    << "acksTotal",
       "activeQueueLength",
       "conflictCheckQueueLength",
       "declinesTotal",
       "deniedDueToMatch",
       "deniedDueToNonMatch",
       "discoversTotal",
       "duplicatesDroppedTotal",
       "failoverBndAckReceivedTotal",
       "failoverBndAckSentTotal",
       "failoverBndUpdDropped",
       "failoverBndUpdPendingOutboundQueue",
       "failoverBndUpdReceivedTotal",
       "failoverBndUpdSentTotal",
       "failoverTransitionsCommunicationInterruptedState",
       "failoverTransitionsPartnerDownState",
       "failoverTransitionsRecoverState",
       "informsTotal",
       "nacksTotal",
       "offerQueueLength",
       "offersTotal",
       "packetsExpiredTotal",
       "packetsReceivedTotal",
       "releasesTotal",
       "requestsTotal" >>

\* Build's assignments c.<field> = NewDesc(BuildFQName(Namespace, Name, <metric>))
\* in source order (lines 129-278).
BuildDescs ==
    << <<"packetsReceivedTotal", "packets_received_total">>,
       <<"duplicatesDroppedTotal", "duplicates_dropped_total">>,
       <<"packetsExpiredTotal", "packets_expired_total">>,
       <<"activeQueueLength", "active_queue_length">>,
       <<"conflictCheckQueueLength", "conflict_check_queue_length">>,
       <<"discoversTotal", "discovers_total">>,
       <<"offersTotal", "offers_total">>,
       <<"requestsTotal", "requests_total">>,
       <<"informsTotal", "informs_total">>,
       <<"acksTotal", "acks_total">>,
       <<"nACKsTotal", "nacks_total">>,
       <<"declinesTotal", "declines_total">>,
       <<"releasesTotal", "releases_total">>,
       <<"offerQueueLength", "offer_queue_length">>,
       <<"deniedDueToMatch", "denied_due_to_match_total">>,
       <<"deniedDueToNonMatch", "denied_due_to_nonmatch_total">>,
       <<"failoverBndUpdSentTotal", "failover_bndupd_sent_total">>,
       <<"failoverBndUpdReceivedTotal", "failover_bndupd_received_total">>,
       <<"failoverBndAckSentTotal", "failover_bndack_sent_total">>,
       <<"failoverBndAckReceivedTotal", "failover_bndack_received_total">>,
       <<"failoverBndUpdPendingOutboundQueue", "failover_bndupd_pending_in_outbound_queue">>,
       <<"failoverTransitionsCommunicationInterruptedState", "failover_transitions_communicationinterrupted_state_total">>,
       <<"failoverTransitionsPartnerDownState", "failover_transitions_partnerdown_state_total">>,
       <<"failoverTransitionsRecoverState", "failover_transitions_recover_total">>,
       <<"failoverBndUpdDropped", "failover_bndupd_dropped_total">> >>

\* collect's channel sends in source order (lines 300-448):
\* MustNewConstMetric(c.<desc>, <valueType>, dhcpPerfs[0].<field>).
collectEmits ==
    << [desc |-> "packetsReceivedTotal", valueType |-> CounterValue, field |-> "PacketsReceivedTotal"],
       [desc |-> "duplicatesDroppedTotal", valueType |-> CounterValue, field |-> "DuplicatesDroppedTotal"],
       [desc |-> "packetsExpiredTotal", valueType |-> CounterValue, field |-> "PacketsExpiredTotal"],
       [desc |-> "activeQueueLength", valueType |-> GaugeValue, field |-> "ActiveQueueLength"],
       [desc |-> "conflictCheckQueueLength", valueType |-> GaugeValue, field |-> "ConflictCheckQueueLength"],
       [desc |-> "discoversTotal", valueType |-> CounterValue, field |-> "DiscoversTotal"],
       [desc |-> "offersTotal", valueType |-> CounterValue, field |-> "OffersTotal"],
       [desc |-> "requestsTotal", valueType |-> CounterValue, field |-> "RequestsTotal"],
       [desc |-> "informsTotal", valueType |-> CounterValue, field |-> "InformsTotal"],
       [desc |-> "acksTotal", valueType |-> CounterValue, field |-> "AcksTotal"],
       [desc |-> "nACKsTotal", valueType |-> CounterValue, field |-> "NacksTotal"],
       [desc |-> "declinesTotal", valueType |-> CounterValue, field |-> "DeclinesTotal"],
       [desc |-> "releasesTotal", valueType |-> CounterValue, field |-> "ReleasesTotal"],
       [desc |-> "offerQueueLength", valueType |-> GaugeValue, field |-> "OfferQueueLength"],
       [desc |-> "deniedDueToMatch", valueType |-> CounterValue, field |-> "DeniedDueToMatch"],
       [desc |-> "deniedDueToNonMatch", valueType |-> CounterValue, field |-> "DeniedDueToNonMatch"],
       [desc |-> "failoverBndUpdSentTotal", valueType |-> CounterValue, field |-> "FailoverBndUpdSentTotal"],
       [desc |-> "failoverBndUpdReceivedTotal", valueType |-> CounterValue, field |-> "FailoverBndUpdReceivedTotal"],
       [desc |-> "failoverBndAckSentTotal", valueType |-> CounterValue, field |-> "FailoverBndAckSentTotal"],
       [desc |-> "failoverBndAckReceivedTotal", valueType |-> CounterValue, field |-> "FailoverBndAckReceivedTotal"],
       [desc |-> "failoverBndUpdPendingOutboundQueue", valueType |-> GaugeValue, field |-> "FailoverBndUpdPendingOutboundQueue"],
       [desc |-> "failoverTransitionsCommunicationInterruptedState", valueType |-> CounterValue, field |-> "FailoverTransitionsCommunicationInterruptedState"],
       [desc |-> "failoverTransitionsPartnerDownState", valueType |-> CounterValue, field |-> "FailoverTransitionsPartnerDownState"],
       [desc |-> "failoverTransitionsRecoverState", valueType |-> CounterValue, field |-> "FailoverTransitionsRecoverState"],
       [desc |-> "failoverBndUpdDropped", valueType |-> CounterValue, field |-> "FailoverBndUpdDropped"] >>

\* collectPDH's channel sends in source order (lines 464-612):
\* MustNewConstMetric(c.<desc>, <valueType>, data[<counter>].FirstValue).
collectPDHEmits ==
    << [desc |-> "packetsReceivedTotal", valueType |-> CounterValue, counter |-> "packetsReceivedTotal"],
       [desc |-> "duplicatesDroppedTotal", valueType |-> CounterValue, counter |-> "duplicatesDroppedTotal"],
       [desc |-> "packetsExpiredTotal", valueType |-> CounterValue, counter |-> "packetsExpiredTotal"],
       [desc |-> "activeQueueLength", valueType |-> GaugeValue, counter |-> "activeQueueLength"],
       [desc |-> "conflictCheckQueueLength", valueType |-> GaugeValue, counter |-> "conflictCheckQueueLength"],
       [desc |-> "discoversTotal", valueType |-> CounterValue, counter |-> "discoversTotal"],
       [desc |-> "offersTotal", valueType |-> CounterValue, counter |-> "offersTotal"],
       [desc |-> "requestsTotal", valueType |-> CounterValue, counter |-> "requestsTotal"],
       [desc |-> "informsTotal", valueType |-> CounterValue, counter |-> "informsTotal"],
       [desc |-> "acksTotal", valueType |-> CounterValue, counter |-> "acksTotal"],
       [desc |-> "nACKsTotal", valueType |-> CounterValue, counter |-> "nacksTotal"],
       [desc |-> "declinesTotal", valueType |-> CounterValue, counter |-> "declinesTotal"],
       [desc |-> "releasesTotal", valueType |-> CounterValue, counter |-> "releasesTotal"],
       [desc |-> "offerQueueLength", valueType |-> GaugeValue, counter |-> "offerQueueLength"],
       [desc |-> "deniedDueToMatch", valueType |-> CounterValue, counter |-> "deniedDueToMatch"],
       [desc |-> "deniedDueToNonMatch", valueType |-> CounterValue, counter |-> "deniedDueToNonMatch"],
       [desc |-> "failoverBndUpdSentTotal", valueType |-> CounterValue, counter |-> "failoverBndUpdSentTotal"],
       [desc |-> "failoverBndUpdReceivedTotal", valueType |-> CounterValue, counter |-> "failoverBndUpdReceivedTotal"],
       [desc |-> "failoverBndAckSentTotal", valueType |-> CounterValue, counter |-> "failoverBndAckSentTotal"],
       [desc |-> "failoverBndAckReceivedTotal", valueType |-> CounterValue, counter |-> "failoverBndAckReceivedTotal"],
       [desc |-> "failoverBndUpdPendingOutboundQueue", valueType |-> GaugeValue, counter |-> "failoverBndUpdPendingOutboundQueue"],
       [desc |-> "failoverTransitionsCommunicationInterruptedState", valueType |-> CounterValue, counter |-> "failoverTransitionsCommunicationInterruptedState"],
       [desc |-> "failoverTransitionsPartnerDownState", valueType |-> CounterValue, counter |-> "failoverTransitionsPartnerDownState"],
       [desc |-> "failoverTransitionsRecoverState", valueType |-> CounterValue, counter |-> "failoverTransitionsRecoverState"],
       [desc |-> "failoverBndUpdDropped", valueType |-> CounterValue, counter |-> "failoverBndUpdDropped"] >>

\* The Counter Catalog of the specification (sections 3 and 6): the metric
\* list with each metric's kind, and the counter identifier and dhcpPerf
\* field bound to it (the perflib tags of dhcpPerf and the counter-name
\* constants live outside dhcp.go).
Catalog ==
    << [metric |-> "packets_received_total", kind |-> "Counter", counter |-> "packetsReceivedTotal", field |-> "PacketsReceivedTotal"],
       [metric |-> "duplicates_dropped_total", kind |-> "Counter", counter |-> "duplicatesDroppedTotal", field |-> "DuplicatesDroppedTotal"],
       [metric |-> "packets_expired_total", kind |-> "Counter", counter |-> "packetsExpiredTotal", field |-> "PacketsExpiredTotal"],
       [metric |-> "active_queue_length", kind |-> "Gauge", counter |-> "activeQueueLength", field |-> "ActiveQueueLength"],
       [metric |-> "conflict_check_queue_length", kind |-> "Gauge", counter |-> "conflictCheckQueueLength", field |-> "ConflictCheckQueueLength"],
       [metric |-> "discovers_total", kind |-> "Counter", counter |-> "discoversTotal", field |-> "DiscoversTotal"],
       [metric |-> "offers_total", kind |-> "Counter", counter |-> "offersTotal", field |-> "OffersTotal"],
       [metric |-> "requests_total", kind |-> "Counter", counter |-> "requestsTotal", field |-> "RequestsTotal"],
       [metric |-> "informs_total", kind |-> "Counter", counter |-> "informsTotal", field |-> "InformsTotal"],
       [metric |-> "acks_total", kind |-> "Counter", counter |-> "acksTotal", field |-> "AcksTotal"],
       [metric |-> "nacks_total", kind |-> "Counter", counter |-> "nacksTotal", field |-> "NacksTotal"],
       [metric |-> "declines_total", kind |-> "Counter", counter |-> "declinesTotal", field |-> "DeclinesTotal"],
       [metric |-> "releases_total", kind |-> "Counter", counter |-> "releasesTotal", field |-> "ReleasesTotal"],
       [metric |-> "offer_queue_length", kind |-> "Gauge", counter |-> "offerQueueLength", field |-> "OfferQueueLength"],
       [metric |-> "denied_due_to_match_total", kind |-> "Counter", counter |-> "deniedDueToMatch", field |-> "DeniedDueToMatch"],
       [metric |-> "denied_due_to_nonmatch_total", kind |-> "Counter", counter |-> "deniedDueToNonMatch", field |-> "DeniedDueToNonMatch"],
       [metric |-> "failover_bndupd_sent_total", kind |-> "Counter", counter |-> "failoverBndUpdSentTotal", field |-> "FailoverBndUpdSentTotal"],
       [metric |-> "failover_bndupd_received_total", kind |-> "Counter", counter |-> "failoverBndUpdReceivedTotal", field |-> "FailoverBndUpdReceivedTotal"],
       [metric |-> "failover_bndack_sent_total", kind |-> "Counter", counter |-> "failoverBndAckSentTotal", field |-> "FailoverBndAckSentTotal"],
       [metric |-> "failover_bndack_received_total", kind |-> "Counter", counter |-> "failoverBndAckReceivedTotal", field |-> "FailoverBndAckReceivedTotal"],
       [metric |-> "failover_bndupd_pending_in_outbound_queue", kind |-> "Gauge", counter |-> "failoverBndUpdPendingOutboundQueue", field |-> "FailoverBndUpdPendingOutboundQueue"],
       [metric |-> "failover_transitions_communicationinterrupted_state_total", kind |-> "Counter", counter |-> "failoverTransitionsCommunicationInterruptedState", field |-> "FailoverTransitionsCommunicationInterruptedState"],
       [metric |-> "failover_transitions_partnerdown_state_total", kind |-> "Counter", counter |-> "failoverTransitionsPartnerDownState", field |-> "FailoverTransitionsPartnerDownState"],
       [metric |-> "failover_transitions_recover_total", kind |-> "Counter", counter |-> "failoverTransitionsRecoverState", field |-> "FailoverTransitionsRecoverState"],
       [metric |-> "failover_bndupd_dropped_total", kind |-> "Counter", counter |-> "failoverBndUpdDropped", field |-> "FailoverBndUpdDropped"] >>

\* ------------------------------------------------------------------- state
VARIABLES
    pdhEnabled,        \* what utils.PDHEnabled() returns now
    descs,             \* the descriptor fields of the Collector (lines 32-56)
    perfDataCollector, \* c.perfDataCollector (line 30): nil or a handle
    created,           \* how many handles perfdata.NewCollector has made
    openHandles,       \* ids of the handles made and not yet closed
    built,             \* a Build call has returned nil
    lastBuild,         \* what the latest Build call did and returned
    closeCalled,       \* Close was called after the latest Build
    last,              \* per path, input and outcome of the latest whole Collect
                       \* since the latest Build
    scrapes            \* SpecConc: the Collect calls in flight, one per sink

vars ==
    <<pdhEnabled, descs, perfDataCollector, created, openHandles, built,
      lastBuild, closeCalled, last, scrapes>>

\* The fields of the Collector object itself.
collectorFields == <<descs, perfDataCollector>>

Paths == {"legacy", "direct"}

Scrapes == 1..NScrapes

\* ------------------------------------------------------------------ inputs
CatalogCounters == {Catalog[i].counter : i \in DOMAIN Catalog}

Fields == {Catalog[i].field : i \in DOMAIN Catalog}

Pos(c) == CHOOSE i \in DOMAIN Catalog : Catalog[i].counter = c

CounterOfField(f) == Catalog[CHOOSE i \in DOMAIN Catalog : Catalog[i].field = f].counter

\* One raw value per catalog entry, pairwise distinct for k > 0.
ValueSet(k) == [c \in CatalogCounters |-> k * Pos(c)]

ValueSets == {ValueSet(k) : k \in 0..MaxScale}

\* A dhcpPerf record holding the values v.
RecordOf(v) == [f \in Fields |-> v[CounterOfField(f)]]

\* A perftypes.CounterValues tuple whose first value is x.
TupleOf(x) == [FirstValue |-> x, SecondValue |-> x + 1]

\* An instance's counter map holding the values v for the counters present.
DataOf(v, present) == [c \in present |-> TupleOf(v[c])]

\* n records, the first holding v and every later one other values.
RecordsOf(v, n) ==
    [i \in 1..n |-> IF i = 1 THEN RecordOf(v) ELSE RecordOf(ValueSet(MaxScale + i))]

\* ctx.PerfObjects["DHCP Server"]: a blob that does not decode, or one that
\* decodes into 0..MaxRecords records.
LegacyInputs ==
    {[decodes |-> FALSE, records |-> <<>>], [decodes |-> TRUE, records |-> <<>>]}
        \cup {[decodes |-> TRUE, records |-> RecordsOf(v, n)] :
                  v \in ValueSets, n \in 1..MaxRecords}

\* Which counters an instance's map may lack: none, any single one, or all.
MissingSets == {{}} \cup {{c} : c \in CatalogCounters} \cup {CatalogCounters}

OtherData == DataOf(ValueSet(MaxScale + 1), Range(counters))

\* What the handle's Collect() returns: an error, or a map from instance key
\* to that instance's counter map, over the counters the handle was created
\* with (line 123).
DirectInputs ==
    LET reg == Range(counters)
        full == {DataOf(v, reg) : v \in ValueSets}
        partial == {DataOf(ValueSet(1), reg \ m) : m \in MissingSets}
        other == OtherInstance :> OtherData
        none == [i \in {} |-> 0]
    IN  {[fails |-> TRUE, perfData |-> none], [fails |-> FALSE, perfData |-> none],
         [fails |-> FALSE, perfData |-> other]}
            \cup {[fails |-> FALSE, perfData |-> EmptyInstance :> d] :
                      d \in full \cup partial}
            \cup {[fails |-> FALSE, perfData |-> (EmptyInstance :> d) @@ other] :
                      d \in full}

\* The method call on a nil perfdata.Collector never reaches a handle.
NoCall == [fails |-> TRUE, perfData |-> [i \in {} |-> 0]]

\* The inputs of the scrapes of SpecConc: one failing, one without the
\* singleton record or instance, and two that hold different values.
ConcLegacyInputs ==
    {[decodes |-> FALSE, records |-> <<>>], [decodes |-> TRUE, records |-> <<>>]}
        \cup {[decodes |-> TRUE, records |-> <<RecordOf(ValueSet(k))>>] : k \in {1, 2}}

ConcDirectInputs ==
    {[fails |-> TRUE, perfData |-> [i \in {} |-> 0]],
     [fails |-> FALSE, perfData |-> [i \in {} |-> 0]]}
        \cup {[fails |-> FALSE, perfData |-> EmptyInstance :> DataOf(ValueSet(k), Range(counters))] :
                  k \in {1, 2}}

\* --------------------------------------------------------------- functions
\* The nil perfdata.Collector a fresh Collector holds.
NoCollector == [id |-> 0]

\* prometheus.BuildFQName(namespace, subsystem, name)
BuildFQName(namespace, subsystem, name) ==
    namespace \o "_" \o subsystem \o "_" \o name

\* New (lines 59-69): every descriptor field is nil.
NoDescs == [f \in Range(DescFields) |-> Nil]

\* Build's descriptor assignments (lines 129-278) applied to the fields d.
NewDescs(d) ==
    [f \in DOMAIN d |->
        LET set == {i \in DOMAIN BuildDescs : BuildDescs[i][1] = f}
        IN  IF set = {} THEN d[f]
            ELSE BuildFQName(Namespace, Name, BuildDescs[Min(set)][2])]

\* utils.PDHEnabled() picks the path (lines 92, 284).
Path(enabled) == IF enabled THEN "direct" ELSE "legacy"

\* v1.UnmarshalObject(obj, &dhcpPerfs, logger) (line 296).
UnmarshalObject(obj) ==
    IF obj.decodes
    THEN [err |-> Nil, dhcpPerfs |-> obj.records]
    ELSE [err |-> ErrDecode, dhcpPerfs |-> <<>>]

\* prometheus.MustNewConstMetric(desc, valueType, value): a nil desc is
\* dereferenced.
MustNewConstMetric(desc, valueType, value) ==
    IF desc = Nil
    THEN [panic |-> PanicNilDeref, sample |-> Nil]
    ELSE [panic |-> Nil,
          sample |-> [desc |-> desc, valueType |-> valueType, value |-> value]]

\* Mutant of FirstValue: the tuple's second value is read.
FirstValueReadsSecond(data, counter) ==
    IF counter \in DOMAIN data THEN data[counter].SecondValue ELSE 0

\* data[counter].FirstValue: a key the map lacks reads as the zero tuple.
FirstValue(data, counter) ==
    IF counter \in DOMAIN data THEN data[counter].FirstValue ELSE 0

\* The i-th send of collect (lines 300-448); dhcpPerfs[0] is indexed
\* unchecked.
collectSend(d, dhcpPerfs, i) ==
    LET e == collectEmits[i]
    IN  IF Len(dhcpPerfs) = 0
        THEN [panic |-> PanicIndex, sample |-> Nil]
        ELSE MustNewConstMetric(d[e.desc], e.valueType, dhcpPerfs[1][e.field])

\* Mutant of collectPDHSend: every sample is sent as a Counter.
collectPDHSendAllCounters(d, data, i) ==
    LET e == collectPDHEmits[i]
    IN  MustNewConstMetric(d[e.desc], CounterValue, FirstValue(data, e.counter))

\* Mutant of collectPDHSend: the map holds pointers, and the tuple of a
\* counter it lacks is dereferenced.
collectPDHSendDerefs(d, data, i) ==
    LET e == collectPDHEmits[i]
    IN  IF e.counter \notin DOMAIN data
        THEN [panic |-> PanicNilDeref, sample |-> Nil]
        ELSE MustNewConstMetric(d[e.desc], e.valueType, data[e.counter].FirstValue)

\* The i-th send of collectPDH (lines 464-612).
collectPDHSend(d, data, i) ==
    LET e == collectPDHEmits[i]
    IN  MustNewConstMetric(d[e.desc], e.valueType, FirstValue(data, e.counter))

\* The sends in order, up to the first that panics.
RunSends(sends) ==
    LET bad == {i \in DOMAIN sends : sends[i].panic # Nil}
    IN  IF bad = {}
        THEN [status |-> "ok", err |-> Nil,
              samples |-> [i \in DOMAIN sends |-> sends[i].sample]]
        ELSE [status |-> "panic", err |-> sends[Min(bad)].panic,
              samples |-> [i \in 1..(Min(bad) - 1) |-> sends[i].sample]]

Failed(err) == [status |-> "error", err |-> err, samples |-> <<>>]

Panicked(msg) == [status |-> "panic", err |-> msg, samples |-> <<>>]

\* collect up to its first send (lines 294-298).
collectStart(obj) ==
    LET r == UnmarshalObject(obj)
    IN  IF r.err # Nil THEN Failed(r.err)
        ELSE [status |-> "sending", err |-> Nil, samples |-> <<>>]

\* Mutant of collectPDHStart: a result without the singleton instance is
\* taken for an empty scrape and nil is returned.
collectPDHStartSwallows(handle, res) ==
    IF handle = NoCollector THEN Panicked(PanicNilDeref)
    ELSE IF res.fails THEN Failed(ErrCollect)
    ELSE IF EmptyInstance \notin DOMAIN res.perfData
         THEN [status |-> "ok", err |-> Nil, samples |-> <<>>]
    ELSE [status |-> "sending", err |-> Nil, samples |-> <<>>]

\* collectPDH up to its first send (lines 454-462).
collectPDHStart(handle, res) ==
    IF handle = NoCollector THEN Panicked(PanicNilDeref)
    ELSE IF res.fails THEN Failed(ErrCollect)
    ELSE IF EmptyInstance \notin DOMAIN res.perfData THEN Failed(ErrEmptyResultSet)
    ELSE [status |-> "sending", err |-> Nil, samples |-> <<>>]

\* collect as a whole (lines 293-451).
collect(d, obj) ==
    LET st == collectStart(obj)
    IN  IF st.status # "sending" THEN st
        ELSE RunSends([i \in DOMAIN collectEmits |-> collectSend(d, obj.records, i)])

\* collectPDH as a whole (lines 453-615).
collectPDH(d, handle, res) ==
    LET st == collectPDHStart(handle, res)
    IN  IF st.status # "sending" THEN st
        ELSE RunSends([i \in DOMAIN collectPDHEmits |->
                          collectPDHSend(d, res.perfData[EmptyInstance], i)])

\* ----------------------------------------------------------------- actions
NoResult == [input |-> Nil, status |-> "none", err |-> Nil, samples |-> <<>>]

NoBuild == [path |-> Nil, err |-> Nil, handleFailed |-> FALSE, newCollectorCalls |-> 0,
            newDescs |-> {}]

IdleScrape == [pc |-> "idle", path |-> Nil, input |-> Nil, idx |-> 0, out |-> <<>>,
               status |-> "none", err |-> Nil]

Init ==
    /\ pdhEnabled \in BOOLEAN
    /\ descs = NoDescs
    /\ perfDataCollector = NoCollector
    /\ created = 0
    /\ openHandles = {}
    /\ built = FALSE
    /\ lastBuild = NoBuild
    /\ closeCalled = FALSE
    /\ last = [p \in Paths |-> NoResult]
    /\ scrapes = [s \in Scrapes |-> IdleScrape]

\* The process-wide switch behind utils.PDHEnabled() changes.
SetPDHEnabled ==
    /\ pdhEnabled' = ~pdhEnabled
    /\ UNCHANGED <<descs, perfDataCollector, created, openHandles, built, lastBuild,
                   closeCalled, last, scrapes>>

\* Build on the direct path when perfdata.NewCollector returns a handle
\* (lines 92-127, then 129-280).
BuildDirectOk ==
    /\ pdhEnabled
    /\ created < MaxHandles
    /\ perfDataCollector' = [id |-> created + 1]
    /\ created' = created + 1
    /\ openHandles' = openHandles \cup {created + 1}
    /\ descs' = NewDescs(descs)
    /\ built' = TRUE
    /\ lastBuild' = [path |-> "direct", err |-> Nil, handleFailed |-> FALSE,
                     newCollectorCalls |-> 1,
                     newDescs |-> {BuildDescs[i][1] : i \in DOMAIN BuildDescs}]

\* Mutant of BuildDirectFail: the descriptors are created before the handle.
BuildDirectFailAfterDescs ==
    /\ pdhEnabled
    /\ perfDataCollector' = NoCollector
    /\ descs' = NewDescs(descs)
    /\ lastBuild' = [path |-> "direct", err |-> ErrCreate, handleFailed |-> TRUE,
                     newCollectorCalls |-> 1,
                     newDescs |-> {BuildDescs[i][1] : i \in DOMAIN BuildDescs}]
    /\ UNCHANGED <<created, openHandles, built>>

\* Build on the direct path when perfdata.NewCollector fails (lines 123-126):
\* the nil collector it returned is stored and the error is returned.
BuildDirectFail ==
    /\ pdhEnabled
    /\ perfDataCollector' = NoCollector
    /\ lastBuild' = [path |-> "direct", err |-> ErrCreate, handleFailed |-> TRUE,
                     newCollectorCalls |-> 1, newDescs |-> {}]
    /\ UNCHANGED <<created, openHandles, descs, built>>

\* Build on the legacy path (line 92 false, then 129-280).
BuildLegacy ==
    /\ ~pdhEnabled
    /\ descs' = NewDescs(descs)
    /\ built' = TRUE
    /\ lastBuild' = [path |-> "legacy", err |-> Nil, handleFailed |-> FALSE,
                     newCollectorCalls |-> 0,
                     newDescs |-> {BuildDescs[i][1] : i \in DOMAIN BuildDescs}]
    /\ UNCHANGED <<perfDataCollector, created, openHandles>>

\* Build (lines 91-281).  It runs at start-up, not while a scrape is sending.
Build ==
    /\ \A s \in Scrapes : scrapes[s].pc # "emit"
    /\ \/ BuildDirectOk
       \/ BuildDirectFail
       \/ BuildLegacy
    /\ closeCalled' = FALSE
    /\ last' = [p \in Paths |-> NoResult]
    /\ UNCHANGED <<pdhEnabled, scrapes>>

\* Close (lines 87-89) returns nil and touches nothing.
Close ==
    /\ closeCalled' = TRUE
    /\ UNCHANGED <<pdhEnabled, descs, perfDataCollector, created, openHandles, built,
                   lastBuild, last, scrapes>>

\* Collect (lines 283-291) run from call to return on the direct path.
CollectDirect ==
    /\ pdhEnabled
    /\ \E res \in IF perfDataCollector = NoCollector THEN {NoCall} ELSE DirectInputs :
           last' = [last EXCEPT !["direct"] =
                        [input |-> res] @@ collectPDH(descs, perfDataCollector, res)]

\* Collect (lines 283-291) run from call to return on the legacy path.
CollectLegacy ==
    /\ ~pdhEnabled
    /\ \E obj \in LegacyInputs :
           last' = [last EXCEPT !["legacy"] = [input |-> obj] @@ collect(descs, obj)]

Collect ==
    /\ \/ CollectDirect
       \/ CollectLegacy
    /\ UNCHANGED <<pdhEnabled, descs, perfDataCollector, created, openHandles, built,
                   lastBuild, closeCalled, scrapes>>

Next ==
    \/ SetPDHEnabled
    \/ Build
    \/ Close
    \/ Collect

Spec == Init /\ [][Next]_vars

\* ------------------------------------------------- scrapes, send by send
Done(sc, status, err) == [sc EXCEPT !.pc = "done", !.status = status, !.err = err]

Started(path, input, st) ==
    IF st.status = "sending"
    THEN [pc |-> "emit", path |-> path, input |-> input, idx |-> 1, out |-> <<>>,
          status |-> "sending", err |-> Nil]
    ELSE [pc |-> "done", path |-> path, input |-> input, idx |-> 0, out |-> <<>>,
          status |-> st.status, err |-> st.err]

\* Scrape s calls Collect (lines 283-291) and runs it up to its first send:
\* collectPDH lines 454-462 on the direct path.
BeginCollectDirect(s) ==
    /\ pdhEnabled
    /\ \E res \in IF perfDataCollector = NoCollector THEN {NoCall} ELSE ConcDirectInputs :
           scrapes' = [scrapes EXCEPT ![s] =
                           Started("direct", res, collectPDHStart(perfDataCollector, res))]

\* ... and collect lines 294-298 on the legacy path.
BeginCollectLegacy(s) ==
    /\ ~pdhEnabled
    /\ \E obj \in ConcLegacyInputs :
           scrapes' = [scrapes EXCEPT ![s] = Started("legacy", obj, collectStart(obj))]

BeginCollect(s) ==
    /\ scrapes[s].pc = "idle"
    /\ \/ BeginCollectDirect(s)
       \/ BeginCollectLegacy(s)
    /\ UNCHANGED <<pdhEnabled, descs, perfDataCollector, created, openHandles, built,
                   lastBuild, closeCalled, last>>

\* Mutant of SendNext: the decoded records and the instance's counter map
\* are kept in one place shared by the scrapes, so a send reads those of the
\* scrape that started sending first.
SendNextSharedData(s) ==
    LET sc == scrapes[s]
        src == scrapes[Min({t \in Scrapes : scrapes[t].pc = "emit"
                                              /\ scrapes[t].path = sc.path})]
        r == IF sc.path = "legacy"
             THEN collectSend(descs, src.input.records, sc.idx)
             ELSE collectPDHSend(descs, src.input.perfData[EmptyInstance], sc.idx)
        n == IF sc.path = "legacy" THEN Len(collectEmits) ELSE Len(collectPDHEmits)
    IN  /\ sc.pc = "emit"
        /\ scrapes' = [scrapes EXCEPT ![s] =
               IF r.panic # Nil THEN Done(sc, "panic", r.panic)
               ELSE IF sc.idx = n
                    THEN Done([sc EXCEPT !.out = Append(sc.out, r.sample)], "ok", Nil)
                    ELSE [sc EXCEPT !.out = Append(sc.out, r.sample), !.idx = sc.idx + 1]]
        /\ UNCHANGED <<pdhEnabled, descs, perfDataCollector, created, openHandles,
                       built, lastBuild, closeCalled, last>>

\* The next send of scrape s: one ch <- MustNewConstMetric(...) of lines
\* 300-448 or 464-612; the return nil that follows the last one (lines 450,
\* 614) is part of that step.
SendNext(s) ==
    LET sc == scrapes[s]
        r == IF sc.path = "legacy"
             THEN collectSend(descs, sc.input.records, sc.idx)
             ELSE collectPDHSend(descs, sc.input.perfData[EmptyInstance], sc.idx)
        n == IF sc.path = "legacy" THEN Len(collectEmits) ELSE Len(collectPDHEmits)
    IN  /\ sc.pc = "emit"
        /\ scrapes' = [scrapes EXCEPT ![s] =
               IF r.panic # Nil THEN Done(sc, "panic", r.panic)
               ELSE IF sc.idx = n
                    THEN Done([sc EXCEPT !.out = Append(sc.out, r.sample)], "ok", Nil)
                    ELSE [sc EXCEPT !.out = Append(sc.out, r.sample), !.idx = sc.idx + 1]]
        /\ UNCHANGED <<pdhEnabled, descs, perfDataCollector, created, openHandles,
                       built, lastBuild, closeCalled, last>>

\* The sink of scrape s has taken the outcome; s is free for the next scrape.
NextScrape(s) ==
    /\ scrapes[s].pc = "done"
    /\ scrapes' = [scrapes EXCEPT ![s] = IdleScrape]
    /\ UNCHANGED <<pdhEnabled, descs, perfDataCollector, created, openHandles, built,
                   lastBuild, closeCalled, last>>

\* Build runs once, before the scrapes.
StartUp == ~built /\ Build

NextConc ==
    \/ StartUp
    \/ \E s \in Scrapes : BeginCollect(s)
    \/ \E s \in Scrapes : SendNext(s)
    \/ \E s \in Scrapes : NextScrape(s)

SpecConc == Init /\ [][NextConc]_vars

\* ------------------------------------------------------------------ claims
\* The metric name section 6 of the specification gives a catalog entry:
\* <namespace>_<component>_<metric>.
ExpectedNames == [i \in DOMAIN Catalog |-> Namespace \o "_" \o Name \o "_" \o Catalog[i].metric]

\* The raw value of catalog entry e in a scrape's input.
RawValue(path, input, e) ==
    IF path = "legacy" THEN input.records[1][e.field]
    ELSE LET data == input.perfData[EmptyInstance]
         IN  IF e.counter \in DOMAIN data THEN data[e.counter].FirstValue ELSE 0

\* The sample of the i-th catalog entry that a scrape's input gives.
ExpectedSample(path, input, i) ==
    [desc |-> ExpectedNames[i], valueType |-> Catalog[i].kind,
     value |-> RawValue(path, input, Catalog[i])]

\* The collector was built and the latest Build chose path p.
BuiltFor(p) == built /\ lastBuild.err = Nil /\ lastBuild.path = p

\* C1: every successful Collect on a built collector, on either path and for
\* every raw value set, sends exactly 25 samples: exactly one per catalog
\* entry, each of the kind the metric list fixes for that entry.
C1_OneSamplePerCatalogEntry ==
    \A p \in Paths :
        (built /\ last[p].status = "ok") =>
            LET S == last[p].samples
            IN  /\ Len(S) = 25
                /\ \A i \in DOMAIN Catalog :
                       LET hits == {j \in DOMAIN S : S[j].desc = ExpectedNames[i]}
                       IN  /\ Cardinality(hits) = 1
                           /\ \A j \in hits : S[j].valueType = Catalog[i].kind

\* C1 witness: after one Build, a Collect has succeeded on each path.
C1_Witness ==
    /\ built
    /\ last["legacy"].status = "ok"
    /\ last["direct"].status = "ok"
    /\ Len(last["direct"].samples) = 25

\* The legacy input holds one record, the direct input holds only the
\* singleton instance with every counter, and both encode the same values.
SameValues(obj, res) ==
    /\ obj.decodes /\ Len(obj.records) = 1
    /\ ~res.fails /\ DOMAIN res.perfData = {EmptyInstance}
    /\ DOMAIN res.perfData[EmptyInstance] = CatalogCounters
    /\ \A i \in DOMAIN Catalog :
           obj.records[1][Catalog[i].field]
               = res.perfData[EmptyInstance][Catalog[i].counter].FirstValue

\* C2: a legacy scrape of a single record and a direct scrape of a singleton
\* instance whose first values are the same values emit the same metric
\* names, kinds and values.
C2_StrategiesAgree ==
    (/\ last["legacy"].status = "ok"
     /\ last["direct"].status = "ok"
     /\ SameValues(last["legacy"].input, last["direct"].input))
        => /\ Len(last["legacy"].samples) = Len(last["direct"].samples)
           /\ Range(last["legacy"].samples) = Range(last["direct"].samples)

\* C2 witness: both paths have scraped the same values, not all of them zero.
C2_Witness ==
    /\ last["legacy"].status = "ok"
    /\ last["direct"].status = "ok"
    /\ SameValues(last["legacy"].input, last["direct"].input)
    /\ last["legacy"].input.records[1]["PacketsReceivedTotal"] > 0
    /\ last["legacy"].input.records[1]["PacketsReceivedTotal"]
           # last["legacy"].input.records[1]["AcksTotal"]

\* C3 (as claimed): every Collect on a collector built for its path ends
\* either with no error and all 25 samples sent, or with an error and no
\* sample sent.
C3_AllOrError ==
    \A p \in Paths :
        (BuiltFor(p) /\ last[p].status # "none") =>
            \/ last[p].status = "ok" /\ Len(last[p].samples) = 25
            \/ last[p].status = "error" /\ last[p].samples = <<>>

\* C4 (as claimed): on the legacy path a blob that decodes into no record
\* makes Collect return an error and send nothing.
C4_NoRecordsIsAnError ==
    (/\ BuiltFor("legacy")
     /\ last["legacy"].status # "none"
     /\ last["legacy"].input.decodes
     /\ Len(last["legacy"].input.records) = 0)
        => last["legacy"].status = "error" /\ last["legacy"].samples = <<>>

\* The handle's Collect call succeeded and its result lacks the singleton
\* instance key.
InstanceMissing(r) ==
    /\ r.status # "none"
    /\ r.input # NoCall
    /\ ~r.input.fails
    /\ EmptyInstance \notin DOMAIN r.input.perfData

C6_PathFixedAtBuild ==
    \A p \in Paths :
        (built /\ lastBuild.err = Nil /\ last[p].status # "none") => p = lastBuild.path

\* C7 (as claimed): once Close has returned on a collector built on the
\* direct path, the handle Build created is no longer open.
C7_CloseReleasesHandle ==
    (closeCalled /\ BuiltFor("direct")) => perfDataCollector.id \notin openHandles

\* C8: Build returns an error exactly when it is on the direct path and the
\* handle cannot be created; it then has tried once and has created no
\* descriptor, and a collector no Build has succeeded on holds none.
C8_BuildFailsOnlyWithoutHandle ==
    /\ lastBuild.path # Nil =>
           /\ lastBuild.err # Nil <=> (lastBuild.path = "direct" /\ lastBuild.handleFailed)
           /\ lastBuild.err # Nil =>
                  /\ lastBuild.err = ErrCreate
                  /\ lastBuild.newCollectorCalls = 1
                  /\ lastBuild.newDescs = {}
    /\ ~built => descs = NoDescs

\* C8 witness: Build has failed on a collector that was never built.
C8_Witness ==
    /\ lastBuild.err = ErrCreate
    /\ lastBuild.path = "direct"
    /\ ~built

\* The scrape's input holds the singleton record or instance.
HasValues(sc) ==
    /\ sc.pc # "idle"
    /\ sc.input # NoCall
    /\ IF sc.path = "legacy" THEN sc.input.decodes /\ Len(sc.input.records) > 0
       ELSE ~sc.input.fails /\ EmptyInstance \in DOMAIN sc.input.perfData

\* C9: however the Collect calls of several scrapes interleave, no step of a
\* scrape writes a field of the collector, and what each scrape has sent to
\* its own sink is what its own raw input gives: the samples of the first
\* catalog entries, in catalog order, while it is sending, those of all of
\* them once it has returned nil, nothing when the input holds no singleton
\* record or instance.
C9_ScrapesAreIsolated ==
    /\ [](\A s \in Scrapes :
              IF HasValues(scrapes[s])
              THEN /\ Len(scrapes[s].out) <= Len(Catalog)
                   /\ \A i \in DOMAIN scrapes[s].out :
                          scrapes[s].out[i]
                              = ExpectedSample(scrapes[s].path, scrapes[s].input, i)
                   /\ scrapes[s].status = "ok" => Len(scrapes[s].out) = Len(Catalog)
              ELSE scrapes[s].out = <<>>)
    /\ [][scrapes' # scrapes => UNCHANGED <<collectorFields, pdhEnabled, openHandles>>]_vars

\* C9 witness: two scrapes with different inputs are both part-way through
\* their sends.
C9_Witness ==
    \E s, t \in Scrapes :
        /\ s # t
        /\ scrapes[s].pc = "emit" /\ scrapes[t].pc = "emit"
        /\ scrapes[s].input # scrapes[t].input
        /\ Len(scrapes[s].out) > 0 /\ Len(scrapes[t].out) > 0

\* The handle's Collect call succeeded, the singleton instance is there, and
\* its counter map lacks at least one counter.
CountersMissing(r) ==
    /\ r.status # "none"
    /\ r.input # NoCall
    /\ ~r.input.fails
    /\ EmptyInstance \in DOMAIN r.input.perfData
    /\ DOMAIN r.input.perfData[EmptyInstance] # CatalogCounters

\* C10: on the direct path, when the singleton instance is present and some
\* counters are absent from its map, Collect returns no error and sends all
\* 25 samples, each absent counter's with value 0.
C10_AbsentCounterReadsZero ==
    CountersMissing(last["direct"]) =>
        LET S == last["direct"].samples
            data == last["direct"].input.perfData[EmptyInstance]
        IN  /\ last["direct"].status = "ok"
            /\ Len(S) = 25
            /\ \A i \in DOMAIN Catalog :
                   Catalog[i].counter \notin DOMAIN data =>
                       \E j \in DOMAIN S :
                           S[j].desc = ExpectedNames[i] /\ S[j].value = 0

\* C10 witness: a direct Collect succeeded on a map lacking exactly one
\* counter, and the other samples carry their values.
C10_Witness ==
    /\ CountersMissing(last["direct"])
    /\ Cardinality(DOMAIN last["direct"].input.perfData[EmptyInstance])
           = Cardinality(CatalogCounters) - 1
    /\ last["direct"].status = "ok"
    /\ \E j \in DOMAIN last["direct"].samples : last["direct"].samples[j].value > 0
====
